---- MODULE Spec2Model ----
(***************************************************************************)
(* Model of the adaptive action-execution controller of linkora-dex-utils: *)
(*   - PriceGenerator (src/oracul/price_generator_cly_debug.py): adaptive  *)
(*     state, gas price estimation, batched price pushes with retry;       *)
(*   - KeeperService (src/keeper/keeper_service.py) with ContractManager   *)
(*     (src/trading/contracts.py) and DiagnosticService                    *)
(*     (src/keeper/diagnostics.py): order scan, order execution with       *)
(*     retry, position liquidation eligibility.                            *)
(*                                                                         *)
(* Python floats are modelled as exact rationals <<num, den>> in lowest    *)
(* terms (den > 0); IEEE rounding is not modelled.  The float literals     *)
(* 1.2, 0.95, 1.3 and 2.0 are the rationals 6/5, 19/20, 13/10 and 2/1.     *)
(***************************************************************************)
EXTENDS Integers, Sequences, FiniteSets, TLC

(***************************************************************************)
(* Bounds of the exploration                                               *)
(***************************************************************************)
MaxFailed == 6
MaxGmDen == 4000
MaxBatchCfg == 7
MaxTokens == 4
MaxRetryCfg == 3
MaxOrders == 3
MaxNetGwei == 30
MaxEntryPrice == 20
MaxPrice == 40
MaxCycles == 5

(***************************************************************************)
(* Rational arithmetic (Python float values)                               *)
(***************************************************************************)
Abs(x) == IF x < 0 THEN -x ELSE x

RECURSIVE GCD(_, _)
GCD(a, b) == IF b = 0 THEN a ELSE GCD(b, a % b)

Rat(n, d) ==
    LET g == GCD(Abs(n), Abs(d))
        s == IF d < 0 THEN -1 ELSE 1
    IN  << (s * n) \div g, (s * d) \div g >>

RatMul(x, y) == Rat(x[1] * y[1], x[2] * y[2])
RatLeq(x, y) == x[1] * y[2] <= y[1] * x[2]
RatLt(x, y) == x[1] * y[2] < y[1] * x[2]
RatMin(x, y) == IF RatLeq(x, y) THEN x ELSE y
RatMax(x, y) == IF RatLeq(x, y) THEN y ELSE x
RatOfInt(n) == << n, 1 >>
\* Python int(x) on a float: truncation toward zero
RatTrunc(x) == IF x[1] >= 0 THEN x[1] \div x[2] ELSE -((-x[1]) \div x[2])

IntMin(a, b) == IF a <= b THEN a ELSE b
IntMax(a, b) == IF a >= b THEN a ELSE b

One == << 1, 1 >>
Two == << 2, 1 >>

(***************************************************************************)
(* State                                                                   *)
(***************************************************************************)
VARIABLES
    failed_attempts,          \* PriceGenerator.failed_attempts
    current_batch_size,       \* PriceGenerator.current_batch_size
    adaptive_gas_multiplier,  \* PriceGenerator.adaptive_gas_multiplier (rational)
    max_batch_size,           \* PriceConfig.max_batch_size (set by configure)
    lastOp,                   \* history: the controller operation applied last
    prev,                     \* history: the adaptive state before lastOp
    retry_attempts,           \* PriceConfig.retry_attempts (set by configure)
    num_tokens,               \* len(PriceGenerator.tokens)
    pc,                       \* position of the update loop
    up,                       \* frame of update_prices: batches, batch index b,
                              \*   fallback index i (0 = none), all_success;
                              \*   history: tripped (a call of this cycle ended
                              \*   with the circuit-breaker error)
    ex,                       \* frame of update_prices_with_retry (see NewCall)
    calls,                    \* history: executor calls of the current cycle
    onFailureCalls,           \* history: adjust_batch_size_on_failure calls, this cycle
    onSuccessCalls,           \* history: reset_adaptive_params_on_success calls, this cycle
    next_order_id,            \* chain: router.getNextOrderId()
    executed,                 \* chain: ids of the orders whose record says executed
    k_retry_attempts,         \* KeeperConfig.retry_attempts
    max_orders_per_batch,     \* KeeperConfig.max_orders_per_batch
    kpc,                      \* position of the keeper's order scan
    k,                        \* frame of _check_orders / _execute_order_with_retry
    kcalls,                   \* history: _execute_order_with_retry calls of this scan
    base_gas_price_gwei,      \* PriceConfig.base_gas_price_gwei
    max_gas_price_gwei,       \* PriceConfig.max_gas_price_gwei
    gas,                      \* last get_dynamic_gas_price call: network read, result
    liquidation_threshold,    \* KeeperConfig.liquidation_threshold
    position,                 \* _check_positions: the position read and its price
    flagged,                  \* _check_positions: was the position sent to liquidation
    ml,                       \* KeeperService._main_loop: position, running,
                              \*   order_check_counter, what the last cycle did
    gen,                      \* PriceGenerator.start: the three loops, is_running,
                              \*   the signer's nonce, the emergency stop
    gl                        \* last get_smart_gas_limit call: arguments, result

adaptiveVars == << failed_attempts, current_batch_size, adaptive_gas_multiplier,
                   lastOp, prev >>
pushVars == << retry_attempts, num_tokens, pc, up, ex, calls,
               onFailureCalls, onSuccessCalls >>

pureVars == << base_gas_price_gwei, max_gas_price_gwei, gas, liquidation_threshold,
               position, flagged >>

keeperVars == << next_order_id, executed, k_retry_attempts, max_orders_per_batch,
                 kpc, k, kcalls >>

loopVars == << ml, gen, gl >>

vars == << failed_attempts, current_batch_size, adaptive_gas_multiplier,
           max_batch_size, lastOp, prev, retry_attempts, num_tokens, pc, up, ex,
           calls, onFailureCalls, onSuccessCalls, next_order_id, executed,
           k_retry_attempts, max_orders_per_batch, kpc, k, kcalls,
           base_gas_price_gwei, max_gas_price_gwei, gas, liquidation_threshold,
           position, flagged, ml, gen, gl >>

Adaptive == [fa |-> failed_attempts, bs |-> current_batch_size,
             gm |-> adaptive_gas_multiplier]

(***************************************************************************)
(* AdaptiveController: pure transition functions on [fa, bs, gm]           *)
(***************************************************************************)
\* Variant of adjust_batch_size_on_failure: the full-degradation branch
\* (failed_attempts >= 4) forgets to force the gas multiplier to 2.0.
adjust_batch_size_on_failure_noforce(s) ==
    LET fa1 == s.fa + 1
        s1 == IF fa1 >= 2
              THEN [fa |-> fa1,
                    bs |-> IntMax(2, s.bs - 1),
                    gm |-> RatMin(Two, RatMul(s.gm, << 6, 5 >>))]
              ELSE [fa |-> fa1, bs |-> s.bs, gm |-> s.gm]
    IN  IF fa1 >= 4 THEN [fa |-> fa1, bs |-> 1, gm |-> s1.gm] ELSE s1

\* Variant of adjust_batch_size_on_failure: the reduction starts one failure
\* late (failed_attempts >= 3 instead of >= 2).
adjust_batch_size_on_failure_late(s) ==
    LET fa1 == s.fa + 1
        s1 == IF fa1 >= 3
              THEN [fa |-> fa1,
                    bs |-> IntMax(2, s.bs - 1),
                    gm |-> RatMin(Two, RatMul(s.gm, << 6, 5 >>))]
              ELSE [fa |-> fa1, bs |-> s.bs, gm |-> s.gm]
    IN  IF fa1 >= 4 THEN [fa |-> fa1, bs |-> 1, gm |-> Two] ELSE s1

\* PriceGenerator.adjust_batch_size_on_failure
adjust_batch_size_on_failure(s) ==
    LET fa1 == s.fa + 1
        s1 == IF fa1 >= 2
              THEN [fa |-> fa1,
                    bs |-> IntMax(2, s.bs - 1),
                    gm |-> RatMin(Two, RatMul(s.gm, << 6, 5 >>))]
              ELSE [fa |-> fa1, bs |-> s.bs, gm |-> s.gm]
    IN  IF fa1 >= 4 THEN [fa |-> fa1, bs |-> 1, gm |-> Two] ELSE s1

\* Variant of reset_adaptive_params_on_success: the decrement is neither
\* guarded by failed_attempts > 0 nor floored at 0.
reset_adaptive_params_on_success_nofloor(s, maxbs) ==
    LET fa1 == s.fa - 1
    IN  IF fa1 = 0
        THEN [fa |-> fa1,
              bs |-> IF s.bs < maxbs THEN IntMin(maxbs, s.bs + 1) ELSE s.bs,
              gm |-> RatMax(One, RatMul(s.gm, << 19, 20 >>))]
        ELSE [fa |-> fa1, bs |-> s.bs, gm |-> s.gm]

\* Variant of reset_adaptive_params_on_success: batch size and multiplier
\* are relaxed on every success, not only once failed_attempts is back at 0.
reset_adaptive_params_on_success_eager(s, maxbs) ==
    LET fa1 == IF s.fa > 0 THEN IntMax(0, s.fa - 1) ELSE s.fa
    IN  [fa |-> fa1,
         bs |-> IF s.bs < maxbs THEN IntMin(maxbs, s.bs + 1) ELSE s.bs,
         gm |-> RatMax(One, RatMul(s.gm, << 19, 20 >>))]

\* PriceGenerator.reset_adaptive_params_on_success
reset_adaptive_params_on_success(s, maxbs) ==
    LET fa1 == IF s.fa > 0 THEN IntMax(0, s.fa - 1) ELSE s.fa
    IN  IF fa1 = 0
        THEN [fa |-> fa1,
              bs |-> IF s.bs < maxbs THEN IntMin(maxbs, s.bs + 1) ELSE s.bs,
              gm |-> RatMax(One, RatMul(s.gm, << 19, 20 >>))]
        ELSE [fa |-> fa1, bs |-> s.bs, gm |-> s.gm]

\* update_prices_with_retry, "out of gas" branch of the exception handler
raise_gas_multiplier(s) ==
    [fa |-> s.fa, bs |-> s.bs, gm |-> RatMin(Two, RatMul(s.gm, << 13, 10 >>))]

WithinBounds(s) == s.fa <= MaxFailed /\ s.gm[2] <= MaxGmDen

SetAdaptive(s, op) ==
    /\ WithinBounds(s)
    /\ failed_attempts' = s.fa
    /\ current_batch_size' = s.bs
    /\ adaptive_gas_multiplier' = s.gm
    /\ lastOp' = op
    /\ prev' = Adaptive

NoCall == [tokens |-> << >>, kind |-> "none", attempt |-> 0, attempts |-> 0,
           all_retryable |-> TRUE, result |-> "none", handled |-> FALSE,
           fail0 |-> 0, succ0 |-> 0, last |-> "none", bcast |-> FALSE,
           bs_sent |-> 0, st0_at |-> 0]

NoCycle == [batches |-> << >>, b |-> 0, i |-> 0, all_success |-> TRUE,
            tripped |-> FALSE]

\* The update loop at rest (not inside update_prices)
PushIdle ==
    /\ retry_attempts = 5
    /\ num_tokens = 1
    /\ pc = "idle"
    /\ up = NoCycle
    /\ ex = NoCall
    /\ calls = << >>
    /\ onFailureCalls = 0
    /\ onSuccessCalls = 0

NoScan == [order_id |-> 0, last |-> 0, attempt |-> 0, result |-> "none",
           delays |-> << >>, nosleep |-> FALSE, seen |-> << >>]

\* The keeper at rest (not inside _check_orders), default KeeperConfig
KeeperIdle ==
    /\ next_order_id = 1
    /\ executed = {}
    /\ k_retry_attempts = 3
    /\ max_orders_per_batch = 10
    /\ kpc = "idle"
    /\ k = NoScan
    /\ kcalls = << >>

NoGas == [network |-> [ok |-> FALSE, gwei |-> 0], price |-> -1]

NoPosition == [read |-> FALSE, is_open |-> FALSE, position_type |-> 0,
               entry_price |-> 0, price |-> [ok |-> FALSE, v |-> 0]]

\* No gas price asked and no position checked yet; default configurations
PureIdle ==
    /\ base_gas_price_gwei = 20
    /\ max_gas_price_gwei = 100
    /\ gas = NoGas
    /\ liquidation_threshold = -90
    /\ position = NoPosition
    /\ flagged = "unchecked"

\* get_smart_gas_limit has not been called.  gm records the
\* adaptive_gas_multiplier at the time the limit was computed.
NoGasLimit == [tokens_count |-> 0, attempt |-> 0, limit |-> -1, gm |-> One]

\* Neither service started, no gas limit asked yet
LoopIdle ==
    /\ ml = [pc |-> "off"]
    /\ gen = [pc |-> "off"]
    /\ gl = NoGasLimit

(***************************************************************************)
(* Specification of the controller alone: any sequence of transitions      *)
(***************************************************************************)
\* PriceGenerator.__init__ and PriceGenerator.configure(max_batch_size=...)
InitAdaptive ==
    /\ failed_attempts = 0
    /\ current_batch_size = 6
    /\ adaptive_gas_multiplier = One
    /\ max_batch_size \in 1..MaxBatchCfg
    /\ lastOp = "init"
    /\ prev = [fa |-> 0, bs |-> 6, gm |-> One]
    /\ PushIdle
    /\ KeeperIdle
    /\ PureIdle
    /\ LoopIdle

OnFailure ==
    /\ SetAdaptive(adjust_batch_size_on_failure(Adaptive), "onFailure")
    /\ UNCHANGED << max_batch_size, pushVars, keeperVars, loopVars, pureVars >>

OnSuccess ==
    /\ SetAdaptive(reset_adaptive_params_on_success(Adaptive, max_batch_size), "onSuccess")
    /\ UNCHANGED << max_batch_size, pushVars, keeperVars, loopVars, pureVars >>

OutOfGas ==
    /\ SetAdaptive(raise_gas_multiplier(Adaptive), "outOfGas")
    /\ UNCHANGED << max_batch_size, pushVars, keeperVars, loopVars, pureVars >>

NextAdaptive == OnFailure \/ OnSuccess \/ OutOfGas

SpecAdaptive == InitAdaptive /\ [][NextAdaptive]_vars

(***************************************************************************)
(* Claims on the adaptive controller                                       *)
(***************************************************************************)
\* C1: in every state reachable by onFailure, onSuccess and out-of-gas
\* multiplier raises, failedAttempts >= 4 implies batchSize = 1 and
\* gasMultiplier = 2.0 (full degradation invariant).
C1_FullDegradation ==
    failed_attempts >= 4 =>
        /\ current_batch_size = 1
        /\ adaptive_gas_multiplier = Two

\* C1 witness: a success (or an out-of-gas raise) applied while still fully
\* degraded, i.e. the invariant is exercised by a step other than onFailure.
C1_Witness ==
    /\ failed_attempts >= 4
    /\ lastOp = "onSuccess"
    /\ prev.fa = failed_attempts + 1

\* C2 (as claimed): after any onFailure / onSuccess call, for every configured
\* max_batch_size >= 1, batchSize is within [1, max_batch_size] and
\* gasMultiplier within [1.0, 2.0].
C2_Claimed ==
    lastOp \in {"onFailure", "onSuccess"} =>
        /\ 1 <= current_batch_size
        /\ current_batch_size <= max_batch_size
        /\ RatLeq(One, adaptive_gas_multiplier)
        /\ RatLeq(adaptive_gas_multiplier, Two)

\* C3 (as claimed): a single onFailure never increases batchSize and a single
\* onSuccess never decreases it.
C3_Claimed ==
    /\ lastOp = "onFailure" => current_batch_size <= prev.bs
    /\ lastOp = "onSuccess" => current_batch_size >= prev.bs

\* C4: onSuccess applied at failedAttempts = 0 leaves it at 0, and
\* failedAttempts is never negative.
C4_SuccessFloor ==
    /\ (lastOp = "onSuccess" /\ prev.fa = 0) => failed_attempts = 0
    /\ failed_attempts >= 0

\* C4 witness: onSuccess has just been applied to a state with
\* failedAttempts = 0.
C4_Witness ==
    /\ lastOp = "onSuccess"
    /\ prev.fa = 0
    /\ failed_attempts = 0

\* C10: onFailure increments failedAttempts by exactly 1; below 2 it leaves
\* batchSize and gasMultiplier unchanged; at 2 or 3 batchSize becomes
\* max(2, batchSize - 1) and gasMultiplier min(2.0, gasMultiplier * 1.2);
\* at 4 or more batchSize becomes 1 and gasMultiplier 2.0.
C10_OnFailureEffect ==
    lastOp = "onFailure" =>
        /\ failed_attempts = prev.fa + 1
        /\ failed_attempts < 2 =>
              /\ current_batch_size = prev.bs
              /\ adaptive_gas_multiplier = prev.gm
        /\ failed_attempts \in {2, 3} =>
              /\ current_batch_size = IntMax(2, prev.bs - 1)
              /\ adaptive_gas_multiplier = RatMin(Two, RatMul(prev.gm, << 6, 5 >>))
        /\ failed_attempts >= 4 =>
              /\ current_batch_size = 1
              /\ adaptive_gas_multiplier = Two

\* C10 witness: the second failure in a row from a batch size above 2 with
\* the multiplier below its cap: batchSize drops by one, gasMultiplier grows.
C10_Witness ==
    /\ lastOp = "onFailure"
    /\ failed_attempts = 2
    /\ prev.bs > 2
    /\ current_batch_size = prev.bs - 1
    /\ RatLt(prev.gm, adaptive_gas_multiplier)
    /\ RatLt(adaptive_gas_multiplier, Two)

\* C11: onSuccess decrements failedAttempts by 1, not below 0; while
\* failedAttempts is still above 0 afterwards batchSize and gasMultiplier are
\* unchanged; once it is 0, batchSize grows by 1 unless it has reached
\* max_batch_size (then it is unchanged) and gasMultiplier becomes
\* max(1.0, gasMultiplier * 0.95).
C11_OnSuccessEffect ==
    lastOp = "onSuccess" =>
        /\ failed_attempts = IF prev.fa > 0 THEN prev.fa - 1 ELSE 0
        /\ failed_attempts > 0 =>
              /\ current_batch_size = prev.bs
              /\ adaptive_gas_multiplier = prev.gm
        /\ failed_attempts = 0 =>
              /\ current_batch_size =
                    IF prev.bs < max_batch_size THEN prev.bs + 1 ELSE prev.bs
              /\ adaptive_gas_multiplier = RatMax(One, RatMul(prev.gm, << 19, 20 >>))
              /\ RatLeq(One, adaptive_gas_multiplier)

\* C11 witness: the success that brings failedAttempts from 1 back to 0 with
\* room to grow: batchSize goes up by one and gasMultiplier comes down,
\* staying above 1.0.
C11_Witness ==
    /\ lastOp = "onSuccess"
    /\ prev.fa = 1
    /\ failed_attempts = 0
    /\ current_batch_size = prev.bs + 1
    /\ RatLt(adaptive_gas_multiplier, prev.gm)
    /\ RatLt(One, adaptive_gas_multiplier)

\* C18 (as claimed): onFailure never lowers gasMultiplier, onSuccess never
\* raises it, and no single controller transition moves batchSize and
\* gasMultiplier in the same direction (both up or both down).
C18_Claimed ==
    /\ lastOp = "onFailure" => RatLeq(prev.gm, adaptive_gas_multiplier)
    /\ lastOp = "onSuccess" => RatLeq(adaptive_gas_multiplier, prev.gm)
    /\ lastOp \in {"onFailure", "onSuccess"} =>
          /\ ~(/\ current_batch_size > prev.bs
                /\ RatLt(prev.gm, adaptive_gas_multiplier))
          /\ ~(/\ current_batch_size < prev.bs
                /\ RatLt(adaptive_gas_multiplier, prev.gm))

(***************************************************************************)
(* BatchPlanner and ActionExecutor of the price-push loop                  *)
(***************************************************************************)
\* update_prices, batch slicing: tokens[i : min(i + batch_size, n)] for
\* i in range(0, n, batch_size); tokens are named by their index 1..n.
RECURSIVE PlanFrom(_, _, _)
PlanFrom(i, n, bs) ==
    IF i >= n THEN << >>
    ELSE << [j \in 1..(IntMin(i + bs, n) - i) |-> i + j] >> \o PlanFrom(i + bs, n, bs)

PlanBatches(n, bs) == PlanFrom(0, n, bs)

\* Outcome of one iteration of the retry loop of update_prices_with_retry:
\*   confirmed        receipt.status == 1
\*   status0          receipt.status != 1 (logged, the loop goes on)
\*   sim_fail         the dry-run tx_function.call() raised
\*   out_of_gas       an exception whose text contains "out of gas"
\*   circuit_breaker  ... else contains "price change too large"
\*   reverted         ... else contains "execution reverted"
\*   other_error      any other exception
Outcomes == {"confirmed", "status0", "sim_fail", "out_of_gas",
             "circuit_breaker", "reverted", "other_error"}

\* Exceptions after which the handler does not return
Retryable(o) == o \in {"out_of_gas", "other_error"}

\* Variant of Terminal: the "price change too large" branch does not return.
Terminal_nocb(o) == o \in {"sim_fail", "reverted"}

\* Variant of Terminal: a failed dry run is handled like any other exception.
Terminal_nosim(o) == o \in {"circuit_breaker", "reverted"}

\* update_prices_with_retry: the iteration ends in "return False" (the failed
\* dry run; the "price change too large" and "execution reverted" branches)
Terminal(o) == o \in {"sim_fail", "circuit_breaker", "reverted"}

\* Variant of InRange: the loop runs one iteration too many.
InRange_offbyone(attempt, retries) == attempt <= retries

\* update_prices_with_retry: for attempt in range(retry_attempts)
InRange(attempt, retries) == attempt < retries

\* update_prices_with_retry: if attempt < retry_attempts - 1: sleep(retry_delay)
SleepBeforeRetry(attempt, retries) == attempt < retries - 1

\* Variant of NeedsFallback: a failed batch of one is re-submitted as well.
NeedsFallback_any(token_batch) == Len(token_batch) >= 1

\* update_prices: if len(token_batch) > 1 (taken when the batch call failed)
NeedsFallback(token_batch) == Len(token_batch) > 1

\* The arguments of the next update_prices_with_retry call of update_prices
Target ==
    IF up.i = 0 THEN up.batches[up.b] ELSE << up.batches[up.b][up.i] >>

NewCall(ok) ==
    [tokens |-> Target,
     kind |-> IF up.i = 0 THEN "batch" ELSE "individual",
     attempt |-> 0,
     attempts |-> 0,
     all_retryable |-> TRUE,
     result |-> IF ok /\ InRange(0, retry_attempts) THEN "running" ELSE "failure",
     handled |-> FALSE,
     fail0 |-> onFailureCalls,
     succ0 |-> onSuccessCalls,
     last |-> "none",
     bcast |-> FALSE,
     bs_sent |-> 0,
     st0_at |-> 0]

\* update_loop -> update_prices: system check, price generation, batch plan.
\* The result of is_system_operational() is an input.
StartCycle ==
    /\ pc = "idle"
    /\ \E operational \in BOOLEAN :
         IF operational
         THEN /\ pc' = "call"
              /\ up' = [batches |-> PlanBatches(num_tokens, current_batch_size),
                        b |-> 1, i |-> 0, all_success |-> TRUE,
                        tripped |-> FALSE]
              /\ ex' = NoCall
              /\ calls' = << >>
              /\ onFailureCalls' = 0
              /\ onSuccessCalls' = 0
         ELSE /\ pc' = "wait_unpause"
              /\ UNCHANGED << up, ex, calls, onFailureCalls, onSuccessCalls >>
    /\ UNCHANGED << adaptiveVars, max_batch_size, retry_attempts, num_tokens,
                    keeperVars, loopVars, pureVars >>

\* wait_for_system_unpause returns once is_system_operational() is true;
\* update_prices then returns without pushing anything.
WaitUnpause ==
    /\ pc = "wait_unpause"
    /\ pc' = "idle"
    /\ UNCHANGED << adaptiveVars, max_batch_size, retry_attempts, num_tokens,
                    up, ex, calls, onFailureCalls, onSuccessCalls, keeperVars, loopVars, pureVars >>

\* update_prices_with_retry up to the retry loop: the pre-flight reads
\* (balance, nonce, gas price) succeed or raise.
BeginCall ==
    /\ pc = "call"
    /\ \E ok \in BOOLEAN :
         /\ ex' = NewCall(ok)
         /\ pc' = IF ex'.result = "running" THEN "attempt" ELSE "returned"
    /\ UNCHANGED << adaptiveVars, max_batch_size, retry_attempts, num_tokens,
                    up, calls, onFailureCalls, onSuccessCalls, keeperVars, loopVars, pureVars >>

\* Where the loop goes after an iteration that did not return
AfterIteration(e, sleeps) ==
    IF sleeps /\ SleepBeforeRetry(e.attempt, retry_attempts)
    THEN /\ pc' = "sleep"
         /\ ex' = e
    ELSE IF InRange(e.attempt + 1, retry_attempts)
    THEN /\ pc' = "attempt"
         /\ ex' = [e EXCEPT !.attempt = @ + 1]
    ELSE /\ pc' = "returned"
         /\ ex' = [e EXCEPT !.result = "failure"]

\* Was send_raw_transaction reached and accepted in an iteration with outcome
\* o: a receipt implies it, a failed dry run returns before it, and an
\* exception is raised either before it (nonce read, build, sign, send) or
\* after it (waiting for the receipt).
Broadcasts(o, sent) ==
    /\ o \in {"confirmed", "status0"} => sent
    /\ o = "sim_fail" => ~sent

\* One iteration of the retry loop of update_prices_with_retry.  The history
\* fields of the frame: last (outcome of this iteration), bcast (did it
\* broadcast), bs_sent (current_batch_size at the last broadcast of this
\* call, 0 when there was none), st0_at (the iteration, counted from 1, that
\* first saw a receipt with status != 1).
Attempt ==
    /\ pc = "attempt"
    /\ \E o \in Outcomes, sent \in BOOLEAN :
         LET e == [ex EXCEPT !.attempts = @ + 1,
                             !.all_retryable = @ /\ Retryable(o),
                             !.last = o,
                             !.bcast = sent,
                             !.bs_sent = IF sent THEN current_batch_size ELSE @,
                             !.st0_at = IF o = "status0" /\ @ = 0
                                        THEN ex.attempts + 1 ELSE @]
         IN  /\ Broadcasts(o, sent)
             /\ CASE o = "confirmed" ->
                    /\ SetAdaptive(reset_adaptive_params_on_success(Adaptive, max_batch_size),
                                   "onSuccess")
                    /\ onSuccessCalls' = onSuccessCalls + 1
                    /\ ex' = [e EXCEPT !.result = "success"]
                    /\ pc' = "returned"
               [] o = "status0" ->
                    /\ AfterIteration(e, FALSE)
                    /\ UNCHANGED << adaptiveVars, onSuccessCalls >>
               [] Terminal(o) ->
                    /\ ex' = [e EXCEPT !.result = "failure"]
                    /\ pc' = "returned"
                    /\ UNCHANGED << adaptiveVars, onSuccessCalls >>
               [] o = "out_of_gas" ->
                    /\ SetAdaptive(raise_gas_multiplier(Adaptive), "outOfGas")
                    /\ AfterIteration(e, TRUE)
                    /\ UNCHANGED onSuccessCalls
               [] OTHER ->
                    /\ AfterIteration(e, TRUE)
                    /\ UNCHANGED << adaptiveVars, onSuccessCalls >>
    /\ UNCHANGED << max_batch_size, retry_attempts, num_tokens, up, calls,
                    onFailureCalls, keeperVars, loopVars, pureVars >>

\* asyncio.sleep(retry_delay) is over: next iteration
Wake ==
    /\ pc = "sleep"
    /\ AfterIteration(ex, FALSE)
    /\ UNCHANGED << adaptiveVars, max_batch_size, retry_attempts, num_tokens,
                    up, calls, onFailureCalls, onSuccessCalls, keeperVars, loopVars, pureVars >>

\* Position of update_prices after the current call: next fallback item,
\* next batch, or the end of the batch loop.
NextPosition(failedBatch) ==
    LET batch == up.batches[up.b]
        advance == IF up.b < Len(up.batches)
                   THEN [b |-> up.b + 1, i |-> 0, done |-> FALSE]
                   ELSE [b |-> up.b, i |-> 0, done |-> TRUE]
    IN  IF up.i = 0
        THEN IF failedBatch /\ NeedsFallback(batch)
             THEN [b |-> up.b, i |-> 1, done |-> FALSE]
             ELSE advance
        ELSE IF up.i < Len(batch)
             THEN [b |-> up.b, i |-> up.i + 1, done |-> FALSE]
             ELSE advance

\* update_prices after update_prices_with_retry has returned: failure
\* handling of a batch, the fallback loop, and the end of the cycle.
HandleReturn ==
    /\ pc = "returned"
    /\ LET success == ex.result = "success"
           failedBatch == up.i = 0 /\ ~success
           allS == up.all_success /\ ~failedBatch
           np == NextPosition(failedBatch)
       IN  /\ calls' = Append(calls, [tokens |-> ex.tokens, kind |-> ex.kind,
                                      ok |-> success])
           /\ ex' = [ex EXCEPT !.handled = TRUE, !.last = "none", !.bcast = FALSE,
                               !.bs_sent = 0, !.st0_at = 0]
           /\ up' = [up EXCEPT !.b = np.b, !.i = np.i, !.all_success = allS,
                               !.tripped = @ \/ ex.last = "circuit_breaker"]
           /\ pc' = IF np.done THEN "idle" ELSE "call"
           /\ IF failedBatch
              THEN /\ SetAdaptive(adjust_batch_size_on_failure(Adaptive), "onFailure")
                   /\ onFailureCalls' = onFailureCalls + 1
                   /\ UNCHANGED onSuccessCalls
              ELSE IF np.done /\ allS
              THEN /\ SetAdaptive(reset_adaptive_params_on_success(Adaptive, max_batch_size),
                                  "onSuccess")
                   /\ onSuccessCalls' = onSuccessCalls + 1
                   /\ UNCHANGED onFailureCalls
              ELSE UNCHANGED << adaptiveVars, onFailureCalls, onSuccessCalls >>
    /\ UNCHANGED << max_batch_size, retry_attempts, num_tokens, keeperVars, loopVars, pureVars >>

\* PriceGenerator.__init__ with the PriceConfig defaults, then
\* configure(retry_attempts=...) and the tokens of the loaded configuration
InitPush ==
    /\ failed_attempts = 0
    /\ current_batch_size = 6
    /\ adaptive_gas_multiplier = One
    /\ max_batch_size = 6
    /\ lastOp = "init"
    /\ prev = [fa |-> 0, bs |-> 6, gm |-> One]
    /\ retry_attempts \in 1..MaxRetryCfg
    /\ num_tokens \in 1..MaxTokens
    /\ pc = "idle"
    /\ up = NoCycle
    /\ ex = NoCall
    /\ calls = << >>
    /\ onFailureCalls = 0
    /\ onSuccessCalls = 0
    /\ KeeperIdle
    /\ PureIdle
    /\ LoopIdle

NextPush == StartCycle \/ WaitUnpause \/ BeginCall \/ Attempt \/ Wake \/ HandleReturn

SpecPush == InitPush /\ [][NextPush]_vars

RECURSIVE ParseCalls(_, _, _)
ParseCalls(bs, cs, complete) ==
    IF cs = << >> THEN (complete => bs = << >>)
    ELSE /\ bs # << >>
         /\ cs[1].tokens = bs[1]
         /\ cs[1].kind = "batch"
         /\ LET n == Len(bs[1])
                got == IntMin(n, Len(cs) - 1)
            IN  IF ~cs[1].ok /\ n > 1
                THEN /\ \A j \in 1..got :
                          /\ cs[1 + j].tokens = << bs[1][j] >>
                          /\ cs[1 + j].kind = "individual"
                     /\ IF Len(cs) - 1 >= n
                        THEN ParseCalls(Tail(bs), SubSeq(cs, n + 2, Len(cs)), complete)
                        ELSE ~complete
                ELSE ParseCalls(Tail(bs), Tail(cs), complete)

\* C6: when a batch of N > 1 price updates fails as a unit, exactly N
\* single-item submissions follow, one per member and in batch order, each
\* with its own retry loop (starting at attempt 0, at most retry_attempts
\* iterations) whatever the others' outcomes; a failed batch of one is not
\* re-submitted.
C6_SplitIntoSingles ==
    /\ ParseCalls(up.batches, calls, pc = "idle")
    /\ ex.attempt <= ex.attempts
    /\ ex.attempts <= retry_attempts
    /\ (pc = "attempt" /\ ex.attempts = 0) => ex.attempt = 0

\* C6 witness: a finished cycle in which a batch of 3 failed and its three
\* members were submitted singly, the first failing and the second succeeding.
C6_Witness ==
    /\ pc = "idle"
    /\ Len(calls) = 4
    /\ calls[1].kind = "batch" /\ Len(calls[1].tokens) = 3 /\ ~calls[1].ok
    /\ calls[2].kind = "individual" /\ ~calls[2].ok
    /\ calls[3].kind = "individual" /\ calls[3].ok
    /\ calls[4].kind = "individual" /\ calls[4].tokens = << 3 >>

\* C12 (as claimed): once a receipt of a price push shows status != 1, the
\* action is terminal: no further submission attempt is made for it.
C12_Claimed ==
    ex.st0_at > 0 => ex.attempts = ex.st0_at

\* C13: an attempt that fails with the "price change too large" error ends
\* the action with failure at once; an attempt that fails with an out-of-gas
\* or an unrecognized error is followed by another attempt (after the sleep)
\* whenever attempts remain, and by the end of the action otherwise.
C13_ErrorClassification ==
    /\ ex.last = "circuit_breaker" =>
          /\ pc = "returned"
          /\ ex.result = "failure"
    /\ (ex.last \in {"out_of_gas", "other_error"} /\ ex.attempts < retry_attempts) =>
          /\ pc \in {"sleep", "attempt"}
          /\ ex.result = "running"
          /\ pc = "attempt" => ex.attempt = ex.attempts
    /\ (ex.last \in {"out_of_gas", "other_error"} /\ ex.attempts >= retry_attempts) =>
          /\ pc = "returned"
          /\ ex.result = "failure"

\* C13 witness: the first attempt failed with a retryable error, a second
\* attempt was made, and it ended the action with the circuit-breaker error
\* although a third attempt remained.
C13_Witness ==
    /\ retry_attempts = 3
    /\ ex.last = "circuit_breaker"
    /\ ex.attempts = 2
    /\ ex.st0_at = 0
    /\ pc = "returned"
    /\ ex.result = "failure"

\* C14: when the dry-run call of a price push fails, nothing is broadcast in
\* that attempt and the executor returns failure at once, whatever number of
\* attempts remains.
C14_DryRunFailure ==
    ex.last = "sim_fail" =>
        /\ ~ex.bcast
        /\ pc = "returned"
        /\ ex.result = "failure"

\* C14 witness: the dry run of the first of three attempts failed; the call
\* has returned failure and has broadcast nothing.
C14_Witness ==
    /\ retry_attempts = 3
    /\ ex.last = "sim_fail"
    /\ ex.attempts = 1
    /\ ex.bs_sent = 0
    /\ pc = "returned"
    /\ ex.result = "failure"

\* C17 (as claimed): every multi-item batch the update loop broadcasts has,
\* when it is broadcast, at most current_batch_size members, also after
\* earlier batches of the same cycle have failed.
C17_Claimed ==
    (ex.kind = "batch" /\ Len(ex.tokens) > 1 /\ ex.bs_sent > 0) =>
        Len(ex.tokens) <= ex.bs_sent

\* C19 (as claimed): failedAttempts, batchSize and gasMultiplier are changed
\* only by the controller transitions onFailure and onSuccess; any other step
\* that touches the adaptive state leaves all three fields as they were.
C19_Claimed ==
    lastOp \notin {"init", "onFailure", "onSuccess"} => Adaptive = prev

\* C20 (as claimed): once a call of the cycle has ended with the
\* circuit-breaker error, no later call of that cycle (individual fallback or
\* remaining batch) broadcasts a price-push transaction; the operational
\* state is looked at again only when the next cycle starts.
C20_Claimed ==
    up.tripped => (ex.handled \/ ex.bs_sent = 0)

\* The update loop with one configured token, scheduled fairly: the loop is
\* sequential code, every chain-client call returns or raises, and
\* asyncio.sleep(retry_delay) ends, so a call that is due is begun, an
\* iteration that is due is run, and a sleeper wakes.
InitExecutor ==
    /\ InitPush
    /\ num_tokens = 1

SpecPushFair ==
    /\ InitExecutor
    /\ [][NextPush]_vars
    /\ WF_vars(BeginCall)
    /\ WF_vars(Attempt)
    /\ WF_vars(Wake)

KInRange(attempt, retries) == attempt < retries

\* _execute_order_with_retry: if attempt < retry_attempts - 1: sleep(retry_delay)
KSleepBeforeRetry(attempt, retries) == attempt < retries - 1

\* Variant of KReceiptOk: a status-1 receipt is not recognised, the loop goes on.
KReceiptOk_never(status) == FALSE

\* _execute_order_with_retry: if receipt.status == 1: return True
KReceiptOk(status) == status = 1

\* _check_orders: range(1, min(next_order_id, max_orders_per_batch + 1)),
\* given as its last member (0 when the range is empty)
LastOrderOfScan(n) == IntMin(n, max_orders_per_batch + 1) - 1

\* Variant of KNextOrder: a failed execution ends the scan.
KNextOrder_abort(f) ==
    IF f.order_id < f.last /\ f.result # "failure"
    THEN /\ kpc' = "scan"
         /\ k' = [f EXCEPT !.order_id = @ + 1, !.attempt = 0]
    ELSE /\ kpc' = "idle"
         /\ k' = f

\* _check_orders: the for loop moves to the next order id or ends
KNextOrder(f) ==
    IF f.order_id < f.last
    THEN /\ kpc' = "scan"
         /\ k' = [f EXCEPT !.order_id = @ + 1, !.attempt = 0]
    ELSE /\ kpc' = "idle"
         /\ k' = f

\* _check_orders up to its for loop.  get_next_order_id() answers 1 when the
\* chain read fails.
KStartScan ==
    /\ kpc = "idle"
    /\ \E readOk \in BOOLEAN :
         LET n == IF readOk THEN next_order_id ELSE 1
         IN  IF n - 1 <= 0 \/ LastOrderOfScan(n) < 1
             THEN /\ kpc' = "idle"
                  /\ k' = NoScan
             ELSE /\ kpc' = "scan"
                  /\ k' = [order_id |-> 1, last |-> LastOrderOfScan(n),
                           attempt |-> 0, result |-> "none",
                           delays |-> << >>, nosleep |-> FALSE, seen |-> << >>]
    /\ kcalls' = << >>
    /\ UNCHANGED << adaptiveVars, max_batch_size, pushVars, pureVars, loopVars, next_order_id, executed,
                    k_retry_attempts, max_orders_per_batch >>

\* Variant of ShouldSubmit: the executed flag of the fetched record is ignored.
ShouldSubmit_noexecuted(order_read, is_executed, should_execute) ==
    order_read /\ should_execute

\* _check_orders: "if not order or order.executed: continue", then
\* "if should_execute:"
ShouldSubmit(order_read, is_executed, should_execute) ==
    order_read /\ ~is_executed /\ should_execute

\* _check_orders, one order id: get_order (None when the read fails),
\* the executed test, should_execute_order (False when the read fails),
\* and the call of _execute_order_with_retry.  History: seen (what was
\* read for each id the scan has looked at, in order); each kcalls entry
\* keeps what was read for its order.
KExamine ==
    /\ kpc = "scan"
    /\ \E readOk \in BOOLEAN, should_execute \in BOOLEAN :
         LET is_executed == k.order_id \in executed
             looked == [k EXCEPT !.seen = Append(@, [order |-> k.order_id,
                                                     read |-> readOk,
                                                     executed |-> is_executed,
                                                     eligible |-> should_execute])]
         IN  IF ~ShouldSubmit(readOk, is_executed, should_execute)
             THEN /\ KNextOrder([looked EXCEPT !.result = "none"])
                  /\ UNCHANGED kcalls
             ELSE /\ kcalls' = Append(kcalls, [order |-> k.order_id, subs |-> 0,
                                               ok_at |-> 0, read |-> readOk,
                                               executed |-> is_executed,
                                               eligible |-> should_execute])
                  /\ IF KInRange(0, k_retry_attempts)
                     THEN /\ kpc' = "exec"
                          /\ k' = [looked EXCEPT !.attempt = 0, !.result = "running",
                                                  !.delays = << >>, !.nosleep = FALSE]
                     ELSE KNextOrder([looked EXCEPT !.result = "failure"])
    /\ UNCHANGED << adaptiveVars, max_batch_size, pushVars, pureVars, loopVars, next_order_id, executed,
                    k_retry_attempts, max_orders_per_batch >>

\* KeeperConfig.retry_delay (seconds)
k_retry_delay == 2

\* Where _execute_order_with_retry goes after an iteration that did not
\* return.  History fields of the frame: delays (the sleeps of this call, in
\* order), nosleep (an iteration of this call began right after the previous
\* one, with no sleep in between).
KAfterIteration(sleeps) ==
    IF sleeps /\ KSleepBeforeRetry(k.attempt, k_retry_attempts)
    THEN /\ kpc' = "sleep"
         /\ k' = [k EXCEPT !.delays = Append(@, k_retry_delay)]
    ELSE IF KInRange(k.attempt + 1, k_retry_attempts)
    THEN /\ kpc' = "exec"
         /\ k' = [k EXCEPT !.attempt = @ + 1,
                            !.nosleep = @ \/ kpc # "sleep"]
    ELSE KNextOrder([k EXCEPT !.result = "failure"])

\* One iteration of _execute_order_with_retry:
\*   no_tx          execute_order returned None (transact raised, caught there)
\*   receipt        the transaction was sent and a receipt with status came back
\*                  (status 1: the chain has executed the order)
\*   receipt_error  the transaction was sent, wait_for_transaction_receipt raised
KAttempt ==
    /\ kpc = "exec"
    /\ \E o \in {"no_tx", "receipt", "receipt_error"}, status \in {0, 1} :
         LET n == Len(kcalls)
             sent == [kcalls EXCEPT ![n].subs = @ + 1]
         IN  CASE o = "no_tx" ->
                    /\ status = 0
                    /\ KAfterIteration(FALSE)
                    /\ UNCHANGED << kcalls, executed >>
               [] o = "receipt" ->
                    /\ kcalls' = IF status = 1 /\ sent[n].ok_at = 0
                                  THEN [sent EXCEPT ![n].ok_at = sent[n].subs]
                                  ELSE sent
                    /\ executed' = IF status = 1 THEN executed \cup {k.order_id}
                                    ELSE executed
                    /\ IF KReceiptOk(status)
                       THEN KNextOrder([k EXCEPT !.result = "success"])
                       ELSE KAfterIteration(FALSE)
               [] o = "receipt_error" ->
                    /\ status = 0
                    /\ kcalls' = sent
                    /\ KAfterIteration(TRUE)
                    /\ UNCHANGED executed
    /\ UNCHANGED << adaptiveVars, max_batch_size, pushVars, pureVars, loopVars, next_order_id,
                    k_retry_attempts, max_orders_per_batch >>

\* asyncio.sleep(retry_delay) of _execute_order_with_retry is over
KWake ==
    /\ kpc = "sleep"
    /\ KAfterIteration(FALSE)
    /\ UNCHANGED << adaptiveVars, max_batch_size, pushVars, pureVars, loopVars, next_order_id, executed,
                    k_retry_attempts, max_orders_per_batch, kcalls >>

\* KeeperService.__init__ with a configuration and a chain holding
\* next_order_id - 1 orders, some of them executed already
InitKeeper ==
    /\ failed_attempts = 0
    /\ current_batch_size = 6
    /\ adaptive_gas_multiplier = One
    /\ max_batch_size = 6
    /\ lastOp = "init"
    /\ prev = [fa |-> 0, bs |-> 6, gm |-> One]
    /\ PushIdle
    /\ next_order_id \in 1..(MaxOrders + 1)
    /\ executed \in SUBSET (1..(next_order_id - 1))
    /\ k_retry_attempts \in 1..MaxRetryCfg
    /\ max_orders_per_batch \in 1..MaxOrders
    /\ kpc = "idle"
    /\ k = NoScan
    /\ kcalls = << >>
    /\ PureIdle
    /\ LoopIdle

NextKeeper == KStartScan \/ KExamine \/ KAttempt \/ KWake

SpecKeeper == InitKeeper /\ [][NextKeeper]_vars

C16_Claimed ==
    /\ ~k.nosleep
    /\ \A i \in 1..(Len(k.delays) - 1) : k.delays[i] < k.delays[i + 1]

(***************************************************************************)
(* GasEstimator: PriceGenerator.get_dynamic_gas_price                      *)
(***************************************************************************)
\* Web3.from_wei(n, 'gwei') (eth_utils.from_wei): the int 0 for n = 0, a
\* decimal.Decimal otherwise.  The network price is given in whole gwei.
from_wei_gwei(gwei) ==
    IF gwei = 0 THEN [type |-> "int", v |-> RatOfInt(0)]
    ELSE [type |-> "Decimal", v |-> RatOfInt(gwei)]

\* network_gas_price_gwei * 1.2: int * float is a float; Decimal * float
\* raises TypeError (unsupported operand types).
times_1_2(x) ==
    IF x.type = "Decimal" THEN [raised |-> TRUE, v |-> x.v]
    ELSE [raised |-> FALSE, v |-> RatMul(x.v, << 6, 5 >>)]

\* get_dynamic_gas_price, in gwei (Web3.to_wei(., 'gwei') of an int is exact):
\* a failed read of w3.eth.gas_price or any exception in the try block ends
\* in the except branch, which returns base_gas_price_gwei.
get_dynamic_gas_price(network, gm, base, max) ==
    IF ~network.ok THEN base
    ELSE LET m == times_1_2(from_wei_gwei(network.gwei))
         IN  IF m.raised THEN base
             ELSE LET adjusted == RatMax(RatOfInt(base), RatMin(m.v, RatOfInt(max)))
                  IN  RatTrunc(RatMul(adjusted, gm))

\* Configurations (base_gas_price_gwei, max_gas_price_gwei) with base <= max:
\* the PriceConfig defaults (20, 100), 10/100, and two narrow ones
GasConfigs == { << 20, 100 >>, << 10, 100 >>, << 10, 10 >>, << 20, 25 >> }

\* One call of get_dynamic_gas_price; the network gas price read is an input
GetGasPrice ==
    /\ \E ok \in BOOLEAN, g \in 0..MaxNetGwei :
         /\ (~ok => g = 0)
         /\ gas' = [network |-> [ok |-> ok, gwei |-> g],
                    price |-> get_dynamic_gas_price([ok |-> ok, gwei |-> g],
                                 adaptive_gas_multiplier, base_gas_price_gwei,
                                 max_gas_price_gwei)]
    /\ UNCHANGED << adaptiveVars, max_batch_size, pushVars, keeperVars, loopVars,
                    base_gas_price_gwei, max_gas_price_gwei, liquidation_threshold,
                    position, flagged >>

InitGas ==
    /\ failed_attempts = 0
    /\ current_batch_size = 6
    /\ adaptive_gas_multiplier = One
    /\ max_batch_size = 6
    /\ lastOp = "init"
    /\ prev = [fa |-> 0, bs |-> 6, gm |-> One]
    /\ PushIdle
    /\ KeeperIdle
    /\ \E c \in GasConfigs : base_gas_price_gwei = c[1] /\ max_gas_price_gwei = c[2]
    /\ gas = NoGas
    /\ liquidation_threshold = -90
    /\ position = NoPosition
    /\ flagged = "unchecked"
    /\ LoopIdle

NextGas == OnFailure \/ OnSuccess \/ OutOfGas \/ GetGasPrice

SpecGas == InitGas /\ [][NextGas]_vars

\* C7 (as claimed): for every network gas price, every reachable
\* gasMultiplier and every configuration with min <= max, the price returned
\* by get_dynamic_gas_price (fallback included) is at least minConfigured and
\* at most maxConfigured * 2.0; with network 20 gwei, min/max 10/100 gwei and
\* gasMultiplier 1.0 it is 24 gwei.
C7_Claimed ==
    gas.price # -1 =>
        /\ gas.price >= base_gas_price_gwei
        /\ gas.price <= max_gas_price_gwei * 2
        /\ ( /\ gas.network.ok
             /\ gas.network.gwei = 20
             /\ base_gas_price_gwei = 10
             /\ max_gas_price_gwei = 100
             /\ adaptive_gas_multiplier = One ) => gas.price = 24

(***************************************************************************)
(* EligibilityScanner for positions: KeeperService._check_positions        *)
(***************************************************************************)
\* DiagnosticService.calculate_pnl_ratio: 0.0 when the price cannot be read
\* (get_price returned None) and when the division raises (entry_price = 0)
calculate_pnl_ratio(p) ==
    IF ~p.price.ok THEN RatOfInt(0)
    ELSE IF p.entry_price = 0 THEN RatOfInt(0)
    ELSE IF p.position_type = 0
         THEN Rat((p.price.v - p.entry_price) * 100, p.entry_price)
         ELSE Rat((p.entry_price - p.price.v) * 100, p.entry_price)

\* Variant of IsLiquidationCandidate: strict comparison.
IsLiquidationCandidate_strict(pnl_ratio, threshold) ==
    RatLt(pnl_ratio, RatOfInt(threshold))

\* _check_positions: if pnl_ratio <= liquidation_threshold
IsLiquidationCandidate(pnl_ratio, threshold) ==
    RatLeq(pnl_ratio, RatOfInt(threshold))

\* Liquidation thresholds (negative percentages); -90 is the default
Thresholds == { -90, -50, -10 }

\* _check_positions, one position id: get_position (None when the read
\* fails), the is_open test, the PnL ratio and the threshold test.
CheckPosition ==
    /\ flagged = "unchecked"
    /\ flagged' =
          IF ~position.read \/ ~position.is_open THEN "no"
          ELSE IF IsLiquidationCandidate(calculate_pnl_ratio(position),
                                         liquidation_threshold)
               THEN "yes" ELSE "no"
    /\ UNCHANGED << adaptiveVars, max_batch_size, pushVars, keeperVars, loopVars,
                    base_gas_price_gwei, max_gas_price_gwei, gas,
                    liquidation_threshold, position >>

\* A position record and an oracle price as the chain may return them
InitPnl ==
    /\ failed_attempts = 0
    /\ current_batch_size = 6
    /\ adaptive_gas_multiplier = One
    /\ max_batch_size = 6
    /\ lastOp = "init"
    /\ prev = [fa |-> 0, bs |-> 6, gm |-> One]
    /\ PushIdle
    /\ KeeperIdle
    /\ base_gas_price_gwei = 20
    /\ max_gas_price_gwei = 100
    /\ gas = NoGas
    /\ liquidation_threshold \in Thresholds
    /\ position \in [read : BOOLEAN, is_open : BOOLEAN, position_type : {0, 1},
                     entry_price : 0..MaxEntryPrice,
                     price : [ok : BOOLEAN, v : 0..MaxPrice]]
    /\ flagged = "unchecked"
    /\ LoopIdle

NextPnl == CheckPosition

SpecPnl == InitPnl /\ [][NextPnl]_vars

\* C9: a position is flagged for liquidation iff it is open and its PnL
\* ratio is <= the liquidation threshold (boundary included), the ratio
\* being (currentPrice - entryPrice) * 100 / entryPrice for a long position
\* and (entryPrice - currentPrice) * 100 / entryPrice for a short one.  The
\* ratio exists when the record and the price were read and entryPrice > 0;
\* otherwise the position is not flagged.  ratio <= T is stated without
\* division: numerator <= T * entryPrice.
C9_LiquidationEligibility ==
    flagged # "unchecked" =>
        LET p == position
            usable == p.read /\ p.price.ok /\ p.entry_price > 0
            num == IF p.position_type = 0
                   THEN (p.price.v - p.entry_price) * 100
                   ELSE (p.entry_price - p.price.v) * 100
            atOrBelow == num <= liquidation_threshold * p.entry_price
        IN  /\ usable => (flagged = "yes" <=> (p.is_open /\ atOrBelow))
            /\ flagged = "yes" => (usable /\ p.is_open)

\* C9 witness: an open long position exactly at the threshold was flagged.
C9_Witness ==
    /\ flagged = "yes"
    /\ position.read /\ position.is_open /\ position.price.ok
    /\ position.position_type = 0
    /\ position.entry_price > 0
    /\ (position.price.v - position.entry_price) * 100
          = liquidation_threshold * position.entry_price

(***************************************************************************)
(* KeeperService._main_loop                                                *)
(***************************************************************************)
OtherThanMainLoop == << adaptiveVars, max_batch_size, pushVars, keeperVars, pureVars,
                        gen, gl >>

NoCycleYet == [ran |-> FALSE, n |-> 0, orders |-> FALSE, positions |-> FALSE,
               completed |-> FALSE]

\* Variant of IsPositionCycle: positions are checked on the odd cycles.
IsPositionCycle_odd(counter) == counter % 2 = 1

\* _main_loop: if self.order_check_counter % 2 == 0: _check_positions()
IsPositionCycle(counter) == counter % 2 = 0

\* One pass of "while self.running": the loop test, then the body.  _check_orders
\* and _check_positions catch every exception themselves, so the body can only
\* fail after them (the diagnostics log); the handler then sleeps retry_delay
\* and the counter is not advanced.  History: last (what this cycle did),
\* orders_in / positions_in (counter values of the completed cycles that
\* checked orders / positions).
MLCycle ==
    /\ ml.pc = "cycle"
    /\ IF ~ml.running
       THEN ml' = [ml EXCEPT !.pc = "exited"]
       ELSE /\ ml.order_check_counter < MaxCycles
            /\ \E fault \in BOOLEAN :
                 LET n == ml.order_check_counter
                     orders == ml.enable_order_execution
                     positions == ml.enable_position_liquidation /\ IsPositionCycle(n)
                 IN  ml' = [ml EXCEPT
                        !.pc = IF fault THEN "fault_sleep" ELSE "sleep",
                        !.order_check_counter = IF fault THEN n ELSE n + 1,
                        !.last = [ran |-> TRUE, n |-> n, orders |-> orders,
                                  positions |-> positions, completed |-> ~fault],
                        !.orders_in = IF orders /\ ~fault THEN @ \cup {n} ELSE @,
                        !.positions_in = IF positions /\ ~fault THEN @ \cup {n} ELSE @]
    /\ UNCHANGED OtherThanMainLoop

\* asyncio.sleep(order_check_interval) or asyncio.sleep(retry_delay) is over
MLWake ==
    /\ ml.pc \in {"sleep", "fault_sleep"}
    /\ ml' = [ml EXCEPT !.pc = "cycle"]
    /\ UNCHANGED OtherThanMainLoop

\* KeeperService.stop, also called by _signal_handler
MLStop ==
    /\ ml.pc \notin {"off", "exited"}
    /\ ml.running
    /\ ml' = [ml EXCEPT !.running = FALSE]
    /\ UNCHANGED OtherThanMainLoop

\* KeeperService.start has set running and entered _main_loop
InitMainLoop ==
    /\ failed_attempts = 0
    /\ current_batch_size = 6
    /\ adaptive_gas_multiplier = One
    /\ max_batch_size = 6
    /\ lastOp = "init"
    /\ prev = [fa |-> 0, bs |-> 6, gm |-> One]
    /\ PushIdle
    /\ KeeperIdle
    /\ PureIdle
    /\ \E oe \in BOOLEAN, pl \in BOOLEAN :
         ml = [pc |-> "cycle", running |-> TRUE, order_check_counter |-> 0,
               enable_order_execution |-> oe, enable_position_liquidation |-> pl,
               last |-> NoCycleYet, orders_in |-> {}, positions_in |-> {}]
    /\ gen = [pc |-> "off"]
    /\ gl = NoGasLimit

NextMainLoop == MLCycle \/ MLWake \/ MLStop

SpecMainLoop == InitMainLoop /\ [][NextMainLoop]_vars

\* C21: with order execution and position liquidation enabled, every cycle of
\* the keeper main loop checks orders, a cycle checks positions exactly when
\* the cycle counter is even, and the counter advances by one per completed
\* cycle (not at all when the cycle ended in the exception handler).
C21_Alternation ==
    (ml.enable_order_execution /\ ml.enable_position_liquidation) =>
        /\ ml.orders_in = 0..(ml.order_check_counter - 1)
        /\ ml.positions_in = { n \in 0..(ml.order_check_counter - 1) : n % 2 = 0 }
        /\ ml.last.ran =>
              /\ ml.last.orders
              /\ ml.last.positions <=> (ml.last.n % 2 = 0)
              /\ ml.order_check_counter =
                    IF ml.last.completed THEN ml.last.n + 1 ELSE ml.last.n

\* C21 witness: four cycles have completed; positions were checked in the
\* first and the third only, orders in all four.
C21_Witness ==
    /\ ml.enable_order_execution
    /\ ml.enable_position_liquidation
    /\ ml.order_check_counter = 4
    /\ ml.orders_in = {0, 1, 2, 3}
    /\ ml.positions_in = {0, 2}

\* ---------------------------------------------------------------------
\* Keeper order scan: what is submitted, what is skipped, what is reached
\* ---------------------------------------------------------------------

\* What the scan read for order id i is enough for a submission
SeenSubmittable(i) ==
    ShouldSubmit(k.seen[i].read, k.seen[i].executed, k.seen[i].eligible)

\* C22: in one order scan an order is submitted only if its id lies in
\* 1..next_order_id-1 and within the per-cycle cap, its record was fetched
\* and is not executed, and the eligibility predicate answered true in that
\* cycle; the submitted ids are strictly ascending, so each at most once.
C22_ScanSafety ==
    /\ \A n \in 1..Len(kcalls) :
         /\ kcalls[n].order \in 1..(next_order_id - 1)
         /\ kcalls[n].order <= max_orders_per_batch
         /\ kcalls[n].read
         /\ ~kcalls[n].executed
         /\ kcalls[n].eligible
    /\ \A m, n \in 1..Len(kcalls) : m < n => kcalls[m].order < kcalls[n].order

\* A scan that skipped order 1 because it was executed already and then
\* submitted order 2
C22_Witness ==
    /\ Len(k.seen) >= 2
    /\ k.seen[1].read /\ k.seen[1].executed /\ k.seen[1].eligible
    /\ Len(kcalls) = 1
    /\ kcalls[1].order = 2
    /\ kcalls[1].subs >= 1

SpecKeeperFair ==
    /\ InitKeeper
    /\ [][NextKeeper]_vars
    /\ WF_vars(KStartScan)
    /\ WF_vars(KExamine)
    /\ WF_vars(KAttempt)
    /\ WF_vars(KWake)

\* C28 as claimed: every order with an id in 1..next_order_id-1 that stays
\* unexecuted is eventually looked at by some scan (an order no scan looks
\* at is never submitted, however long it stays eligible), whatever its id
\* and however many orders exist.
C28_Claimed ==
    \A id \in 1..MaxOrders :
        <>(id >= next_order_id
           \/ id \in executed
           \/ \E i \in 1..Len(k.seen) : k.seen[i].order = id)

\* ---------------------------------------------------------------------
\* Gas limit of a price push
\* ---------------------------------------------------------------------

\* get_smart_gas_limit: base_gas by number of tokens
base_gas(tokens_count) ==
    IF tokens_count = 1 THEN 800000
    ELSE IF tokens_count <= 3 THEN 2500000
    ELSE 1500000 + tokens_count * 700000

\* get_smart_gas_limit: return min(gas_limit, 8000000)
smart_gas_cap == 8000000

\* base_gas * retry_multiplier * failure_multiplier is a product of binary
\* floating-point numbers: for these (tokens_count, attempt, failed_attempts)
\* it falls just below the whole number the exact product is, and int()
\* then drops one unit (all such inputs with tokens_count <= 7,
\* attempt <= 6, failed_attempts <= 11)
FloatFallsShort(tokens_count, attempt, fa) ==
    << tokens_count, attempt, fa >> \in
        { << 1, 4, 4 >>, << 2, 6, 4 >>, << 3, 6, 4 >>, << 6, 0, 4 >>, << 6, 2, 0 >> }

\* PriceGenerator.get_smart_gas_limit(tokens_count, attempt) with
\* self.failed_attempts = fa:
\*   retry_multiplier   = 1.0 + attempt * 0.2          = (5 + attempt) / 5
\*   failure_multiplier = 1.0 + failed_attempts * 0.1  = (10 + fa) / 10
get_smart_gas_limit(tokens_count, attempt, fa) ==
    LET exact == (base_gas(tokens_count) * (5 + attempt) * (10 + fa)) \div 50
        gas_limit == IF FloatFallsShort(tokens_count, attempt, fa)
                     THEN exact - 1 ELSE exact
    IN  IntMin(gas_limit, smart_gas_cap)

\* update_prices_with_retry, line 435: the gas limit of one attempt
GetGasLimit ==
    /\ \E tokens_count \in 1..MaxTokens, attempt \in 0..(MaxRetryCfg - 1) :
         gl' = [tokens_count |-> tokens_count, attempt |-> attempt,
                limit |-> get_smart_gas_limit(tokens_count, attempt, failed_attempts),
                gm |-> adaptive_gas_multiplier]
    /\ UNCHANGED << adaptiveVars, max_batch_size, pushVars, keeperVars, pureVars, ml, gen >>

NextGasLimit == OnFailure \/ OnSuccess \/ OutOfGas \/ GetGasLimit

\* The controller's transitions in any order, with gas limits asked in between
SpecGasLimit == InitAdaptive /\ [][NextGasLimit]_vars

\* min(cap, base * (1 + attempt * 0.2) * gm), truncated to a whole number,
\* for gm = n / d (computed in two parts to stay within machine integers)
ClaimedGasLimit(tokens_count, attempt, gm) ==
    LET v == (base_gas(tokens_count) \div 5000) * (5 + attempt)
        whole == (v * gm[1]) \div gm[2]
        part == (((v * gm[1]) % gm[2]) * 1000) \div gm[2]
    IN  IntMin(smart_gas_cap, whole * 1000 + part)

\* C27 as claimed: the gas limit of an attempt is
\* min(cap, base(actionCount) * (1 + attempt * 0.2) * currentGasMultiplier).
C27_Claimed ==
    gl.limit >= 0 => gl.limit = ClaimedGasLimit(gl.tokens_count, gl.attempt, gl.gm)

\* ---------------------------------------------------------------------
\* Controller calls over one update_prices cycle
\* ---------------------------------------------------------------------

\* The calls of update_prices_with_retry of this cycle that ended confirmed
ConfirmedCalls == { n \in 1..Len(calls) : calls[n].ok }

\* The calls of update_prices_with_retry of this cycle that ended failed
FailedCalls == { n \in 1..Len(calls) : ~calls[n].ok }

\* C29 as claimed: over one update_prices cycle onSuccess has been invoked
\* exactly once per confirmed submission and onFailure exactly once per
\* failed submission, batch and individual pushes alike.
C29_Claimed ==
    (pc = "idle" /\ Len(calls) > 0) =>
        /\ onSuccessCalls = Cardinality(ConfirmedCalls)
        /\ onFailureCalls = Cardinality(FailedCalls)

(***************************************************************************)
(* The price generator's loops: PriceGenerator.start runs update_loop,     *)
(* display_loop and event_loop as three tasks of one event loop.  Every    *)
(* web3 call is a blocking call, so a task gives up the thread only in     *)
(* asyncio.sleep.  Each push is one update_prices_with_retry call on one   *)
(* batch.                                                                  *)
(***************************************************************************)
\* Highest transaction count of the signer the chain is followed to
MaxNonce == 2

\* price_config.retry_attempts of the generator in this specification
GenRetries == 2

OtherThanGenerator ==
    << adaptiveVars, max_batch_size, pushVars, keeperVars, pureVars, ml, gl >>

\* asyncio.gather(update_loop(), display_loop(), event_loop())
Tasks == {"update", "display", "event"}

\* The loops that end in update_prices_with_retry
Pushers == {"update", "event"}

\* Positions in which a task is suspended in asyncio.sleep (or not yet run):
\*   start           created by gather, not yet run
\*   initial_sleep   event_loop: asyncio.sleep(30)
\*   wait_sleep      wait_for_system_unpause: asyncio.sleep(3)
\*   backoff_sleep   update_prices_with_retry: asyncio.sleep(retry_delay)
\*   interval_sleep  the sleep at the end of a loop body
Sleeping == {"start", "initial_sleep", "wait_sleep", "backoff_sleep", "interval_sleep"}

\* Positions of a task whose coroutine is over
Ended == {"exited", "raised", "cancelled"}

\* Variant of Suspends: the task also gives up the thread between its nonce
\* read and send_raw_transaction, as it would with awaited RPC calls.
Suspends_rpc(p) == p \in Sleeping \cup {"send"}

\* Does a task at position p give up the thread to the event loop
Suspends(p) == p \in Sleeping

\* Where a suspended task goes on when the event loop resumes it
Resume(p) ==
    CASE p = "wait_sleep" -> "wait_poll"
      [] p = "backoff_sleep" -> "nonce"
      [] p = "send" -> "send"
      [] OTHER -> "top"

\* The task has read its nonce and has not yet called send_raw_transaction
BetweenReadAndBroadcast(t) == gen.t[t] = "send"

\* The task is inside an attempt, between its nonce read and the end of
\* wait_for_transaction_receipt
InFlight(t) == gen.t[t] \in {"send", "receipt"}

\* Task t moves to position p; it keeps the thread unless p suspends or ends it
Move(g, t, p) ==
    [g EXCEPT !.t[t] = p,
              !.active = IF Suspends(p) \/ p \in Ended THEN "none" ELSE t]

\* update_prices_with_retry returns (True or False): the loop body goes on to
\* its asyncio.sleep
EndPush(g, t) ==
    Move([g EXCEPT !.rn[t] = -1, !.att[t] = 0], t, "interval_sleep")

\* except Exception of update_prices_with_retry, retryable error:
\* asyncio.sleep(retry_delay) if attempt < retry_attempts - 1, and the end of
\* the for loop otherwise
AfterException(g, t) ==
    IF g.att[t] < GenRetries - 1
    THEN Move([g EXCEPT !.rn[t] = -1], t, "backoff_sleep")
    ELSE EndPush(g, t)

\* The event loop resumes a suspended task
GWake(t) ==
    /\ gen.pc = "run"
    /\ gen.active = "none"
    /\ Suspends(gen.t[t])
    /\ gen' = [gen EXCEPT !.t[t] = Resume(@),
                          !.active = t,
                          !.att[t] = IF gen.t[t] = "backoff_sleep" THEN @ + 1 ELSE @]
    /\ UNCHANGED OtherThanGenerator

\* "while self.is_running:" of a loop and the start of its body.  The body
\* has no try/except: an exception raised in it (fault) ends the coroutine.
\* History: faulted (the first task that raised), cyc_stop[t] (the emergency
\* stop has been active ever since this cycle of t began).
GTop(t) ==
    /\ gen.pc = "run"
    /\ gen.active = t
    /\ gen.t[t] = "top"
    /\ IF ~gen.is_running
       THEN gen' = Move(gen, t, "exited")
       ELSE \E fault \in BOOLEAN :
              IF fault
              THEN gen' = Move([gen EXCEPT !.faulted = IF @ = "none" THEN t ELSE @],
                               t, "raised")
              ELSE CASE t = "update" ->
                          gen' = Move([gen EXCEPT !.cyc_stop[t] = gen.estop], t, "check")
                     [] t = "display" ->
                          gen' = Move(gen, t, "interval_sleep")
                     [] t = "event" ->
                          gen' = Move([gen EXCEPT !.cyc_stop[t] = gen.estop,
                                                  !.att[t] = 0], t, "nonce")
    /\ UNCHANGED OtherThanGenerator

\* update_prices: "if not await self.is_system_operational()"; the read of
\* emergencyStop() answers or raises (readOk)
GCheck ==
    /\ gen.pc = "run"
    /\ gen.active = "update"
    /\ gen.t["update"] = "check"
    /\ \E readOk \in BOOLEAN :
         IF readOk /\ ~gen.estop
         THEN gen' = Move([gen EXCEPT !.att["update"] = 0], "update", "nonce")
         ELSE gen' = Move(gen, "update", "wait_poll")
    /\ UNCHANGED OtherThanGenerator

\* wait_for_system_unpause: "while not await self.is_system_operational():
\* await asyncio.sleep(3)"; update_prices returns when the loop ends
GWaitPoll ==
    /\ gen.pc = "run"
    /\ gen.active = "update"
    /\ gen.t["update"] = "wait_poll"
    /\ \E readOk \in BOOLEAN :
         IF readOk /\ ~gen.estop
         THEN gen' = Move(gen, "update", "interval_sleep")
         ELSE gen' = Move(gen, "update", "wait_sleep")
    /\ UNCHANGED OtherThanGenerator

\* update_prices_with_retry, line 436: get_transaction_count at the start of
\* an attempt (the count of mined transactions), or an exception.  History:
\* overlap (a nonce was read while another task was between its nonce read
\* and its broadcast).
GReadNonce(t) ==
    /\ gen.pc = "run"
    /\ gen.active = t
    /\ gen.t[t] = "nonce"
    /\ \E ok \in BOOLEAN :
         IF ok
         THEN gen' = Move([gen EXCEPT !.rn[t] = gen.nonce,
                                      !.overlap = @ \/ \E o \in Pushers \ {t} :
                                                         BetweenReadAndBroadcast(o)],
                          t, "send")
         ELSE gen' = AfterException(gen, t)
    /\ UNCHANGED OtherThanGenerator

\* update_prices_with_retry, lines 445-472: dry run, build, sign,
\* send_raw_transaction.
\*   sim_fail  the dry run raised: return False
\*   error     an exception before the node accepted the transaction
\*   sent      the node accepted it: it is the signer's pending transaction
\*             for its nonce (replacing one left there by an earlier attempt)
\* History: pushed_stopped (tasks that broadcast in a cycle throughout which
\* the emergency stop was active).
GSend(t) ==
    /\ gen.pc = "run"
    /\ gen.active = t
    /\ gen.t[t] = "send"
    /\ \E o \in {"sim_fail", "error", "sent"} :
         CASE o = "sim_fail" -> gen' = EndPush(gen, t)
           [] o = "error" -> gen' = AfterException(gen, t)
           [] o = "sent" ->
                /\ gen.rn[t] = gen.nonce
                /\ gen' = Move([gen EXCEPT !.pending = t,
                                           !.pushed_stopped =
                                               IF gen.estop /\ gen.cyc_stop[t]
                                               THEN @ \cup {t} ELSE @],
                               t, "receipt")
    /\ UNCHANGED OtherThanGenerator

\* update_prices_with_retry, lines 475-484: wait_for_transaction_receipt.
\*   confirmed  receipt with status 1: return True
\*   status0    receipt with another status: next iteration at once
\*   timeout    the wait raised, the transaction stays pending
GReceipt(t) ==
    /\ gen.pc = "run"
    /\ gen.active = t
    /\ gen.t[t] = "receipt"
    /\ \E o \in {"confirmed", "status0", "timeout"} :
         LET mined == [gen EXCEPT !.nonce = @ + 1, !.pending = "none"]
         IN  CASE o = "confirmed" ->
                    /\ gen.pending = t /\ gen.nonce < MaxNonce
                    /\ gen' = EndPush(mined, t)
               [] o = "status0" ->
                    /\ gen.pending = t /\ gen.nonce < MaxNonce
                    /\ gen' = IF gen.att[t] + 1 < GenRetries
                              THEN Move([mined EXCEPT !.att[t] = @ + 1, !.rn[t] = -1],
                                        t, "nonce")
                              ELSE EndPush(mined, t)
               [] o = "timeout" -> gen' = AfterException(gen, t)
    /\ UNCHANGED OtherThanGenerator

\* The chain mines a transaction that was left pending
GMine ==
    /\ gen.pc = "run"
    /\ gen.pending # "none"
    /\ gen.t[gen.pending] # "receipt"
    /\ gen.nonce < MaxNonce
    /\ gen' = [gen EXCEPT !.nonce = @ + 1, !.pending = "none"]
    /\ UNCHANGED OtherThanGenerator

\* The exchange's emergency stop is switched on or off
GToggleEstop ==
    /\ gen.pc = "run"
    /\ gen' = [gen EXCEPT !.estop = ~@,
                          !.cyc_stop = [t \in Pushers |-> FALSE]]
    /\ UNCHANGED OtherThanGenerator

\* PriceGenerator.stop()
GStop ==
    /\ gen.pc = "run"
    /\ gen.is_running
    /\ gen' = [gen EXCEPT !.is_running = FALSE, !.stopped = TRUE]
    /\ UNCHANGED OtherThanGenerator

\* PriceGenerator.start: gather hands the exception of a task on, which is
\* not a KeyboardInterrupt; "finally: self.is_running = False"
GFinalize ==
    /\ gen.pc = "run"
    /\ gen.faulted # "none"
    /\ ~gen.finalized
    /\ gen' = [gen EXCEPT !.is_running = FALSE, !.finalized = TRUE]
    /\ UNCHANGED OtherThanGenerator

\* main() leaves through sys.exit(1) after start() raised, and asyncio.run
\* cancels the tasks that are still suspended
GCancel(t) ==
    /\ gen.pc = "run"
    /\ gen.finalized
    /\ gen.active = "none"
    /\ Suspends(gen.t[t])
    /\ gen' = [gen EXCEPT !.t[t] = "cancelled"]
    /\ UNCHANGED OtherThanGenerator

\* PriceGenerator.start up to the gather: is_running is set, the three tasks
\* exist; event_loop begins with asyncio.sleep(30)
InitGenerator ==
    /\ failed_attempts = 0
    /\ current_batch_size = 6
    /\ adaptive_gas_multiplier = One
    /\ max_batch_size = 6
    /\ lastOp = "init"
    /\ prev = [fa |-> 0, bs |-> 6, gm |-> One]
    /\ PushIdle
    /\ KeeperIdle
    /\ PureIdle
    /\ ml = [pc |-> "off"]
    /\ gl = NoGasLimit
    /\ \E estop \in BOOLEAN :
         gen = [pc |-> "run", is_running |-> TRUE, stopped |-> FALSE,
                finalized |-> FALSE, faulted |-> "none", estop |-> estop,
                active |-> "none",
                t |-> [x \in Tasks |-> IF x = "event" THEN "initial_sleep" ELSE "start"],
                att |-> [x \in Pushers |-> 0],
                rn |-> [x \in Pushers |-> -1],
                nonce |-> 0, pending |-> "none", overlap |-> FALSE,
                cyc_stop |-> [x \in Pushers |-> FALSE],
                pushed_stopped |-> {}]

NextGenerator ==
    \/ \E t \in Tasks : GWake(t)
    \/ \E t \in Tasks : GTop(t)
    \/ GCheck
    \/ GWaitPoll
    \/ \E t \in Pushers : GReadNonce(t)
    \/ \E t \in Pushers : GSend(t)
    \/ \E t \in Pushers : GReceipt(t)
    \/ GMine
    \/ GToggleEstop
    \/ GStop
    \/ GFinalize
    \/ \E t \in Tasks : GCancel(t)

SpecGenerator == InitGenerator /\ [][NextGenerator]_vars

\* C24 as claimed: a fault in one loop never stops the other loops: as long
\* as nobody has called stop(), no other loop of the price generator has
\* left its while loop or been cancelled.
C24_Claimed ==
    (gen.pc = "run" /\ gen.faulted # "none" /\ ~gen.stopped) =>
        \A t \in Tasks \ {gen.faulted} : gen.t[t] \notin {"exited", "cancelled"}

\* The price generator with its scheduling: the event loop resumes every
\* sleeping task when its sleep is over, a running task takes its next step,
\* and start() reaches its finally clause.  The chain, the faults and the
\* caller of stop() are under no obligation.
SpecGeneratorFair ==
    /\ InitGenerator
    /\ [][NextGenerator]_vars
    /\ \A t \in Tasks : SF_vars(GWake(t)) /\ WF_vars(GTop(t))
    /\ \A t \in Pushers : WF_vars(GReadNonce(t)) /\ WF_vars(GSend(t)) /\ WF_vars(GReceipt(t))
    /\ WF_vars(GCheck)
    /\ WF_vars(GWaitPoll)
    /\ WF_vars(GFinalize)

\* C25 as claimed: after stop() every loop of the price generator
\* eventually exits, whatever it was doing at the time of the call.
C25_Claimed ==
    (gen.pc = "run" /\ gen.stopped) ~> (\A t \in Tasks : gen.t[t] \in Ended)

C30_Claimed ==
    gen.pc = "run" => gen.pushed_stopped = {}

====
